---- MODULE Spec2Model ----
(***************************************************************************)
(* A model of the Mafia game engine of newclasses.py: the Player records,  *)
(* the MafiaGame object, and its handlers start_new_game, add_player,      *)
(* vote_to_lynch and vote_no_lynch with everything they call.              *)
(*                                                                         *)
(* Player objects live in a heap indexed by 1..Len(user); a Python list of *)
(* Players is a sequence of heap indices, None is 0.  The code of a        *)
(* handler is written once, as functions from a game state (a record, the  *)
(* "self" of the method) to the next one, cut at the await points of the   *)
(* coroutine.  Spec and SpecVote run a handler to completion in one step;  *)
(* SpecAsync resumes one suspended handler per step.  SpecRoles forms the  *)
(* larger rosters that are given roles, and SpecLife calls every method,   *)
(* add_player and end_game included, at any time.                          *)
(***************************************************************************)
EXTENDS Integers, Sequences, FiniteSets, TLC

VARIABLES
    timeout,            \* MafiaGame.timeout
    is_accepting,       \* MafiaGame.is_accepting
    is_ongoing,         \* MafiaGame.is_ongoing
    players,            \* MafiaGame.players, a list of Player
    townies,            \* MafiaGame.townies (as a set)
    mafia,              \* MafiaGame.mafia (as a set)
    alive,              \* MafiaGame.alive, a list of Player
    alive_is_players,   \* TRUE when alive and players are one list object
    day_num,            \* MafiaGame.day_num
    day_phase,          \* MafiaGame.day_phase
    no_lynch,           \* MafiaGame.no_lynch
    vote_table,         \* MafiaGame.vote_table, Player -> count
    user_to_player,     \* MafiaGame.user_to_player, user -> Player
    gen_channel,        \* MafiaGame.gen_channel, "None" or "channel"
    user,               \* Player.user, by heap index
    role,               \* Player.role (its role_name, "None" when unset)
    is_alive,           \* Player.is_alive
    votes_for,          \* Player.votes_for (0 is None)
    is_no_lynch,        \* Player.is_no_lynch
    tasks               \* suspended coroutines, in the order their events arrived

game_vars == <<timeout, is_accepting, is_ongoing, players, townies, mafia, alive,
               alive_is_players, day_num, day_phase, no_lynch, vote_table,
               user_to_player, gen_channel, user, role, is_alive, votes_for,
               is_no_lynch>>

vars == <<game_vars, tasks>>

----------------------------------------------------------------------------
(* Bounds of the model. *)

\* Spec: the largest roster formed in the join window.
MaxPlayers == 3
\* Spec: the users that may join, vote or be named.
NumUsers == 2
\* SpecVote: the largest roster that votes.
VotePlayers == 5
\* Votes are delivered while day_num <= MaxDay.
MaxDay == 1
\* SpecAsync: the largest roster, and the handlers in flight at once.
AsyncPlayers == 2
MaxInFlight == 2
\* SpecAsync: events arrive while no count is further than this outside 0..n.
MaxSkew == 1

\* SpecRoles: the largest roster that is given roles.
MaxRoster == 8
\* SpecLife: the Player records made in the life of one MafiaGame object.
MaxRecords == 3

\* The join window an integer argument of :>start asks for.
SomeTimeout == 5
\* MafiaGame.timeout after construction.
DefaultTimeout == 10

----------------------------------------------------------------------------
(* Helpers for Python values. *)

None == 0

EmptyDict == [x \in {} |-> 0]

Range(seq) == {seq[i] : i \in 1..Len(seq)}

\* list.remove(x): drops the first occurrence of x.
RECURSIVE ListRemove(_, _)
ListRemove(seq, x) ==
    IF seq = <<>> THEN <<>>
    ELSE IF Head(seq) = x THEN Tail(seq)
    ELSE <<Head(seq)>> \o ListRemove(Tail(seq), x)

\* dict(zip(keys, values)): a later pair replaces an earlier one with the same key.
DictZip(keys, values) ==
    [k \in Range(keys) |->
        LET i == CHOOSE i \in 1..Len(keys) :
                    /\ keys[i] = k
                    /\ \A j \in (i+1)..Len(keys) : keys[j] # k
        IN values[i]]

\* A tie taken for a majority.
lynch_threshold_tie(n) == n \div 2

\* math.floor(n / 2) + 1
lynch_threshold(n) == (n \div 2) + 1

\* The half rounded down.
no_lynch_threshold_floor(n) == n \div 2

\* math.ceil(n / 2)
no_lynch_threshold(n) == (n + 1) \div 2

\* A half rounded up.
round_quarter_half_up(n) == (n + 2) \div 4

\* round(n / 4): to the nearest integer, a half to the even neighbour.
round_quarter(n) ==
    LET q == n \div 4
        r == n % 4
    IN IF r < 2 THEN q
       ELSE IF r > 2 THEN q + 1
       ELSE IF q % 2 = 0 THEN q ELSE q + 1

----------------------------------------------------------------------------
(* The game state as one value, the "self" of the methods. *)

self ==
    [timeout |-> timeout, is_accepting |-> is_accepting, is_ongoing |-> is_ongoing,
     players |-> players, townies |-> townies, mafia |-> mafia, alive |-> alive,
     alive_is_players |-> alive_is_players, day_num |-> day_num,
     day_phase |-> day_phase, no_lynch |-> no_lynch, vote_table |-> vote_table,
     user_to_player |-> user_to_player, gen_channel |-> gen_channel,
     user |-> user, role |-> role, is_alive |-> is_alive, votes_for |-> votes_for,
     is_no_lynch |-> is_no_lynch]

\* MafiaGame.__init__, with an empty heap.
MafiaGame ==
    [timeout |-> DefaultTimeout, is_accepting |-> FALSE, is_ongoing |-> FALSE,
     players |-> <<>>, townies |-> {}, mafia |-> {}, alive |-> <<>>,
     alive_is_players |-> FALSE, day_num |-> 0, day_phase |-> "Night",
     no_lynch |-> 0, vote_table |-> EmptyDict, user_to_player |-> EmptyDict,
     gen_channel |-> "None",
     user |-> <<>>, role |-> <<>>, is_alive |-> <<>>, votes_for |-> <<>>,
     is_no_lynch |-> <<>>]

\* The variables take the values of the state s.
Becomes(s) ==
    /\ timeout' = s.timeout
    /\ is_accepting' = s.is_accepting
    /\ is_ongoing' = s.is_ongoing
    /\ players' = s.players
    /\ townies' = s.townies
    /\ mafia' = s.mafia
    /\ alive' = s.alive
    /\ alive_is_players' = s.alive_is_players
    /\ day_num' = s.day_num
    /\ day_phase' = s.day_phase
    /\ no_lynch' = s.no_lynch
    /\ vote_table' = s.vote_table
    /\ user_to_player' = s.user_to_player
    /\ gen_channel' = s.gen_channel
    /\ user' = s.user
    /\ role' = s.role
    /\ is_alive' = s.is_alive
    /\ votes_for' = s.votes_for
    /\ is_no_lynch' = s.is_no_lynch

IsState(s) ==
    /\ timeout = s.timeout
    /\ is_accepting = s.is_accepting
    /\ is_ongoing = s.is_ongoing
    /\ players = s.players
    /\ townies = s.townies
    /\ mafia = s.mafia
    /\ alive = s.alive
    /\ alive_is_players = s.alive_is_players
    /\ day_num = s.day_num
    /\ day_phase = s.day_phase
    /\ no_lynch = s.no_lynch
    /\ vote_table = s.vote_table
    /\ user_to_player = s.user_to_player
    /\ gen_channel = s.gen_channel
    /\ user = s.user
    /\ role = s.role
    /\ is_alive = s.is_alive
    /\ votes_for = s.votes_for
    /\ is_no_lynch = s.is_no_lynch

----------------------------------------------------------------------------
(* Methods without an await. *)

\* Player(discord_user): a new record at the next heap index.
Player(s, discord_user) ==
    [s EXCEPT !.user = Append(@, discord_user),
              !.role = Append(@, "None"),
              !.is_alive = Append(@, TRUE),
              !.votes_for = Append(@, None),
              !.is_no_lynch = Append(@, FALSE)]

init_game(s) ==
    [s EXCEPT !.is_accepting = TRUE,
              !.is_ongoing = TRUE,
              !.players = <<>>,
              !.alive_is_players = FALSE,
              !.townies = {},
              !.mafia = {},
              !.day_num = 0,
              !.day_phase = "Night",
              !.vote_table = EmptyDict,
              !.user_to_player = EmptyDict]

\* end_game, lines 145-156: both flags True, new empty lists (alive and players are
\* two lists again); timeout and no_lynch are not assigned.
end_game(s) ==
    [s EXCEPT !.is_accepting = TRUE,
              !.is_ongoing = TRUE,
              !.players = <<>>,
              !.townies = {},
              !.mafia = {},
              !.alive = <<>>,
              !.alive_is_players = FALSE,
              !.day_num = 0,
              !.day_phase = "Night",
              !.vote_table = EmptyDict,
              !.user_to_player = EmptyDict,
              !.gen_channel = "None"]

\* self.players.append(Player(discord_user)); alive grows too when it is the same list.
add_player(s, discord_user) ==
    LET t == Player(s, discord_user)
        p == Len(t.user)
    IN [t EXCEPT !.players = Append(@, p),
                 !.alive = IF t.alive_is_players THEN Append(@, p) ELSE @]

\* self.alive.remove(player); player.is_alive = False.  The caller checks that
\* player is in alive (remove raises ValueError otherwise).
kill_player(s, player) ==
    [s EXCEPT !.alive = ListRemove(@, player),
              !.players = IF s.alive_is_players THEN ListRemove(@, player) ELSE @,
              !.is_alive = [@ EXCEPT ![player] = FALSE]]

make_vote_table(s) ==
    [s EXCEPT !.vote_table = DictZip(s.alive, [i \in 1..Len(s.alive) |-> 0]),
              !.no_lynch = 0]

\* The day counted at nightfall as well.
progress_day_counts_nights(s) ==
    LET s1 == IF s.day_phase = "Day"
              THEN [s EXCEPT !.day_phase = "Night", !.day_num = @ + 1]
              ELSE [s EXCEPT !.day_phase = "Day", !.day_num = @ + 1]
        s2 == [s1 EXCEPT
                 !.is_no_lynch = [p \in DOMAIN @ |->
                                    IF p \in Range(s1.players) THEN FALSE ELSE @[p]],
                 !.votes_for = [p \in DOMAIN @ |->
                                    IF p \in Range(s1.players) THEN None ELSE @[p]],
                 !.no_lynch = 0]
    IN make_vote_table(s2)

\* progress_day up to its await (lines 202-211).
progress_day(s) ==
    LET s1 == IF s.day_phase = "Day"
              THEN [s EXCEPT !.day_phase = "Night"]
              ELSE [s EXCEPT !.day_phase = "Day", !.day_num = @ + 1]
        s2 == [s1 EXCEPT
                 !.is_no_lynch = [p \in DOMAIN @ |->
                                    IF p \in Range(s1.players) THEN FALSE ELSE @[p]],
                 !.votes_for = [p \in DOMAIN @ |->
                                    IF p \in Range(s1.players) THEN None ELSE @[p]],
                 !.no_lynch = 0]
    IN make_vote_table(s2)

\* The text print_votes builds: each key of vote_table with its count and the keys
\* that vote for it, and the no-lynch count.
print_votes(s) ==
    [votes |-> s.vote_table,
     voted_by |-> [player \in DOMAIN s.vote_table |->
                     {p \in DOMAIN s.vote_table : s.votes_for[p] = player}],
     no_lynch |-> s.no_lynch]

NoTally == [votes |-> EmptyDict, voted_by |-> EmptyDict, no_lynch |-> 0]

\* give_roles, lines 249-270, for the draw `mafias` of random.sample.
give_roles(s, mafias) ==
    LET all == Range(s.players)
        town == all \ mafias
    IN [s EXCEPT !.role = [p \in DOMAIN @ |->
                             IF p \in mafias THEN "Mafia "
                             ELSE IF p \in town THEN "Townie" ELSE @[p]],
                 !.mafia = mafias,
                 !.townies = town,
                 !.alive = s.players,
                 !.alive_is_players = TRUE,
                 !.user_to_player =
                     DictZip([i \in 1..Len(s.players) |-> s.user[s.players[i]]],
                             s.players)]

\* The draws random.sample(self.players, num_mafia) can make.
Samples(s) ==
    {m \in SUBSET Range(s.players) : Cardinality(m) = round_quarter(Len(s.players))}

----------------------------------------------------------------------------
(* Coroutines, cut at their awaits.  A piece of a handler maps a state to a *)
(* result: the state it leaves, the await it is suspended at (pc, a line of *)
(* newclasses.py; "done" after a return, "raised" after an exception), its  *)
(* locals, the messages it sent and the print_votes text among them.  The   *)
(* messages are outputs: no handler reads them back.                        *)

Task(op, pc, player, voted) ==
    [op |-> op, pc |-> pc, player |-> player, voted |-> voted]

Result(s, task, msgs, tally) ==
    [s |-> s, task |-> task, out |-> msgs, tally |-> tally]

\* A return, after sending msgs.
Returned(s, op, msgs) == Result(s, Task(op, "done", None, None), msgs, NoTally)

\* An exception leaves the coroutine.
Raised(s, op) == Result(s, Task(op, "raised", None, None), <<>>, NoTally)

\* The word after the command in message.content: none, one int() rejects, or an
\* integer.
NoArg == [kind |-> "absent", n |-> 0]
TextArg == [kind |-> "text", n |-> 0]
IntArg(n) == [kind |-> "int", n |-> n]

\* start_new_game up to its sleep (lines 293-315).
start_new_game(s, arg, mentions) ==
    IF s.is_ongoing
    THEN Returned(s, "start_new_game", <<"already_ongoing">>)
    ELSE LET s1 == [init_game(s) EXCEPT !.gen_channel = "channel"]
             s2 == IF arg.kind = "absent" THEN s1
                   ELSE IF arg.kind = "text" THEN [s1 EXCEPT !.timeout = 0]
                   ELSE [s1 EXCEPT !.timeout = arg.n]
             added[i \in 0..Len(mentions)] ==
                 IF i = 0 THEN s2 ELSE add_player(added[i-1], mentions[i])
         IN Result(added[Len(mentions)], Task("start_new_game", "L315", None, None),
                   <<"game_started">>, NoTally)

\* Roles given with the join window left open.
start_new_game_L315_window_open(s, mafias) ==
    LET s2 == give_roles(s, mafias)
        s3 == progress_day(s2)
    IN Result(s3, Task("start_new_game", "done", None, None),
              <<"assigning_roles", "pm_roles", "phase">>, NoTally)

\* start_new_game after its sleep (lines 316-324): give_roles with its messages,
\* then progress_day.
start_new_game_L315(s, mafias) ==
    LET s1 == [s EXCEPT !.is_accepting = FALSE]
        s2 == give_roles(s1, mafias)
        s3 == progress_day(s2)
    IN Result(s3, Task("start_new_game", "done", None, None),
              <<"assigning_roles", "pm_roles">>
                  \o [i \in 1..Len(s2.players) |-> "you_are"]
                  \o (IF Cardinality(s2.mafia) > 1
                      THEN [i \in 1..Cardinality(s2.mafia) |-> "your_allies"]
                      ELSE <<>>)
                  \o <<"phase">>,
              NoTally)

\* check_if_day_should_progress up to its first await (lines 187-195).
check_if_day_should_progress(s, op, voted) ==
    IF voted # None /\ voted \notin DOMAIN s.vote_table
    THEN Raised(s, op)                                       \* KeyError, line 187
    ELSE IF voted # None
            /\ s.vote_table[voted] >= lynch_threshold(Cardinality(DOMAIN s.vote_table))
    THEN Result(s, Task(op, "L189", None, voted),
                <<IF s.day_phase = "Day" THEN "lynched" ELSE "killed">>, NoTally)
    ELSE IF s.no_lynch >= no_lynch_threshold(Len(s.alive))
    THEN Result(s, Task(op, "L195", None, None), <<"no_lynch_result">>, NoTally)
    ELSE Returned(s, op, <<>>)

\* The dead taken for the living.
is_dead_never(s, player) == FALSE

\* `not player.is_alive` (lines 338, 352, 384).
is_dead(s, player) == ~s.is_alive[player]

\* The former target keeps the vote.
decrement_vote_kept(s, player) == s

\* self.vote_table[player] -= 1 (lines 362, 392); the caller checks the key.
decrement_vote(s, player) ==
    [s EXCEPT !.vote_table = [@ EXCEPT ![player] = @ - 1]]

\* self.vote_table[player] += 1 (line 366); the caller checks the key.
increment_vote(s, player) ==
    [s EXCEPT !.vote_table = [@ EXCEPT ![player] = @ + 1]]

\* The flag cleared and the counter left as it was.
retract_no_lynch_counter_kept(s, player) ==
    [s EXCEPT !.is_no_lynch = [@ EXCEPT ![player] = FALSE]]

\* The counter lowered and the flag left set.
retract_no_lynch_flag_kept(s, player) ==
    IF s.is_no_lynch[player] THEN [s EXCEPT !.no_lynch = @ - 1] ELSE s

\* Lines 356-358 of vote_to_lynch.
retract_no_lynch(s, player) ==
    IF s.is_no_lynch[player]
    THEN [s EXCEPT !.is_no_lynch = [@ EXCEPT ![player] = FALSE], !.no_lynch = @ - 1]
    ELSE s

\* The missing target reported before the voter is looked at (lines 342-344
\* moved before line 333).
vote_to_lynch_target_first(s, author, mention) ==
    IF ~s.is_ongoing THEN Raised(s, "vote_to_lynch")
    ELSE IF mention = None
    THEN Returned(s, "vote_to_lynch", <<"no_target">>)
    ELSE IF author \notin DOMAIN s.user_to_player
    THEN Returned(s, "vote_to_lynch", <<"not_in_game">>)
    ELSE LET player == s.user_to_player[author] IN
    IF is_dead(s, player)
    THEN Returned(s, "vote_to_lynch", <<"voter_dead">>)
    ELSE IF mention \notin DOMAIN s.user_to_player
    THEN Returned(s, "vote_to_lynch", <<"target_not_in_game">>)
    ELSE LET player_being_lynched == s.user_to_player[mention] IN
    IF is_dead(s, player_being_lynched)
    THEN Returned(s, "vote_to_lynch", <<"target_dead">>)
    ELSE LET s1 == retract_no_lynch(s, player)
             prior == s1.votes_for[player]
         IN IF prior = None
            THEN Result(s1, Task("vote_to_lynch", "L365", player, player_being_lynched),
                        <<"voted">>, NoTally)
            ELSE IF prior \notin DOMAIN s1.vote_table
            THEN Raised(s1, "vote_to_lynch")
            ELSE Result(decrement_vote(s1, prior),
                        Task("vote_to_lynch", "L365", player, player_being_lynched),
                        <<"changed">>, NoTally)

\* vote_to_lynch up to its await at line 365.  mention is message.mentions[0],
\* None for a message with no mention.
vote_to_lynch(s, author, mention) ==
    IF ~s.is_ongoing THEN Raised(s, "vote_to_lynch")          \* AssertionError
    ELSE IF author \notin DOMAIN s.user_to_player
    THEN Returned(s, "vote_to_lynch", <<"not_in_game">>)
    ELSE LET player == s.user_to_player[author] IN
    IF is_dead(s, player)
    THEN Returned(s, "vote_to_lynch", <<"voter_dead">>)
    ELSE IF mention = None
    THEN Returned(s, "vote_to_lynch", <<"no_target">>)
    ELSE IF mention \notin DOMAIN s.user_to_player
    THEN Returned(s, "vote_to_lynch", <<"target_not_in_game">>)
    ELSE LET player_being_lynched == s.user_to_player[mention] IN
    IF is_dead(s, player_being_lynched)
    THEN Returned(s, "vote_to_lynch", <<"target_dead">>)
    ELSE LET s1 == retract_no_lynch(s, player)
             prior == s1.votes_for[player]
         IN IF prior = None
            THEN Result(s1, Task("vote_to_lynch", "L365", player, player_being_lynched),
                        <<"voted">>, NoTally)
            ELSE IF prior \notin DOMAIN s1.vote_table
            THEN Raised(s1, "vote_to_lynch")                  \* KeyError, line 362
            ELSE Result(decrement_vote(s1, prior),
                        Task("vote_to_lynch", "L365", player, player_being_lynched),
                        <<"changed">>, NoTally)

\* The vote counted and not recorded with its voter (line 367 left out).
vote_to_lynch_L365_unrecorded(s, task) ==
    IF task.voted \notin DOMAIN s.vote_table
    THEN Raised(s, task.op)
    ELSE LET s1 == increment_vote(s, task.voted)
         IN Result(s1, [task EXCEPT !.pc = "L227"], <<"votes">>, print_votes(s1))

\* vote_to_lynch from line 366 to the await in print_votes.
vote_to_lynch_L365(s, task) ==
    IF task.voted \notin DOMAIN s.vote_table
    THEN Raised(s, task.op)                                   \* KeyError, line 366
    ELSE LET s1 == [increment_vote(s, task.voted) EXCEPT
                        !.votes_for = [@ EXCEPT ![task.player] = task.voted]]
         IN Result(s1, [task EXCEPT !.pc = "L227"], <<"votes">>, print_votes(s1))

\* Lines 391-393 of vote_no_lynch; the caller checks the key (KeyError otherwise).
retract_vote(s, player) ==
    [decrement_vote(s, s.votes_for[player]) EXCEPT
        !.votes_for = [@ EXCEPT ![player] = None]]

\* A second no-lynch vote of one player counted again.
already_no_lynch_never(s, player) == FALSE

\* `player.is_no_lynch` at line 388.
already_no_lynch(s, player) == s.is_no_lynch[player]

\* vote_no_lynch up to its await at line 398.
vote_no_lynch(s, author) ==
    IF ~s.is_ongoing THEN Raised(s, "vote_no_lynch")          \* AssertionError
    ELSE IF author \notin DOMAIN s.user_to_player
    THEN Returned(s, "vote_no_lynch", <<"not_in_game">>)
    ELSE LET player == s.user_to_player[author] IN
    IF is_dead(s, player)
    THEN Returned(s, "vote_no_lynch", <<"voter_dead">>)
    ELSE IF already_no_lynch(s, player)
    THEN Returned(s, "vote_no_lynch", <<>>)
    ELSE IF s.votes_for[player] # None /\ s.votes_for[player] \notin DOMAIN s.vote_table
    THEN Raised(s, "vote_no_lynch")                           \* KeyError, line 392
    ELSE LET s1 == IF s.votes_for[player] # None THEN retract_vote(s, player) ELSE s
             s2 == [s1 EXCEPT !.is_no_lynch = [@ EXCEPT ![player] = TRUE],
                              !.no_lynch = @ + 1]
         IN Result(s2, Task("vote_no_lynch", "L398", player, None),
                   <<"votes_no_lynch">>, NoTally)

\* A suspended vote handler continues from its await to the next one.
resume(s, task) ==
    CASE task.pc = "L365" -> vote_to_lynch_L365(s, task)
      [] task.pc = "L398" ->                                  \* print_votes
            Result(s, [task EXCEPT !.pc = "L227"], <<"votes">>, print_votes(s))
      [] task.pc = "L227" ->
            check_if_day_should_progress(s, task.op, task.voted)
      [] task.pc = "L189" ->                                  \* lines 192-193
            IF task.voted \notin Range(s.alive)
            THEN Raised(s, task.op)                           \* ValueError, line 170
            ELSE Result(progress_day(kill_player(s, task.voted)),
                        [task EXCEPT !.pc = "L212"], <<"phase">>, NoTally)
      [] task.pc = "L195" ->                                  \* line 196
            Result(progress_day(s), [task EXCEPT !.pc = "L212"], <<"phase">>, NoTally)
      [] task.pc = "L212" -> Returned(s, task.op, <<>>)

\* A handler with nothing else running between its awaits.
RECURSIVE Complete(_)
Complete(r) ==
    IF r.task.pc \in {"done", "raised"} THEN r
    ELSE LET n == resume(r.s, r.task)
         IN Complete([n EXCEPT !.out = r.out \o @,
                               !.tally = IF r.tally # NoTally THEN r.tally ELSE @])

----------------------------------------------------------------------------
(* Events handled one at a time: each handler runs to completion. *)

\* The start command.  An accepted one leaves the coroutine asleep in the join window.
StartNewGame(arg, mentions) ==
    LET r == start_new_game(self, arg, mentions)
    IN /\ Becomes(r.s)
       /\ tasks' = IF r.task.pc = "L315" THEN Append(tasks, r.task) ELSE tasks

\* The join command, delivered during the join window.
AddPlayer(discord_user) ==
    /\ is_accepting
    /\ Len(players) < MaxPlayers
    /\ Becomes(add_player(self, discord_user))
    /\ UNCHANGED tasks

\* asyncio.sleep(self.timeout) ends and start_new_game runs to its end.
JoinTimerExpires ==
    /\ tasks # <<>>
    /\ Head(tasks).pc = "L315"
    /\ \E mafias \in Samples(self) :
          Becomes(start_new_game_L315(self, mafias).s)
    /\ tasks' = Tail(tasks)

VoteToLynch(author, mention) ==
    /\ day_num <= MaxDay
    /\ Becomes(Complete(vote_to_lynch(self, author, mention)).s)
    /\ UNCHANGED tasks

VoteNoLynch(author) ==
    /\ day_num <= MaxDay
    /\ Becomes(Complete(vote_no_lynch(self, author)).s)
    /\ UNCHANGED tasks

Users == 1..NumUsers

StartArgs == {NoArg, TextArg, IntArg(SomeTimeout)}

MentionLists == {<<>>, <<1>>, <<2, 1>>}

Init ==
    /\ IsState(MafiaGame)
    /\ tasks = <<>>

Next ==
    \/ \E arg \in StartArgs, mentions \in MentionLists : StartNewGame(arg, mentions)
    \/ \E discord_user \in Users : AddPlayer(discord_user)
    \/ JoinTimerExpires
    \/ \E author \in Users, mention \in Users \cup {None} : VoteToLynch(author, mention)
    \/ \E author \in Users : VoteNoLynch(author)

Spec == Init /\ [][Next]_vars

----------------------------------------------------------------------------
(* The voting game on a roster of n distinct users: Day 1 of a game started *)
(* with n mentions and no timeout argument.  The vote handlers never read a *)
(* role, so the draw of give_roles is fixed to the first records.           *)

Day1(n) ==
    LET r == start_new_game(MafiaGame, NoArg, [i \in 1..n |-> i])
    IN start_new_game_L315(r.s, 1..round_quarter(n))

InitVote ==
    \E n \in 1..VotePlayers :
        /\ IsState(Day1(n).s)
        /\ tasks = <<>>

\* The users of the game and one that never joined.
Voters == 1..(Len(user) + 1)

NextVote ==
    \/ \E author \in Voters, mention \in Voters \cup {None} : VoteToLynch(author, mention)
    \/ \E author \in Voters : VoteNoLynch(author)

SpecVote == InitVote /\ [][NextVote]_vars

----------------------------------------------------------------------------
(* Vote events whose handlers interleave: a handler runs when its event      *)
(* arrives, up to its first await, and a suspended handler is resumed when   *)
(* the message it awaits has been sent, in any order.                        *)

Finished(task) == task.pc \in {"done", "raised"}

\* The suspended handlers but the i-th.
Without(seq, i) == SubSeq(seq, 1, i - 1) \o SubSeq(seq, i + 1, Len(seq))

\* An event can arrive: the bounds of the model allow another handler.
CanReceive ==
    /\ day_num <= MaxDay
    /\ Len(tasks) < MaxInFlight
    /\ no_lynch \in -MaxSkew..(Len(user) + MaxSkew)
    /\ \A p \in DOMAIN vote_table : vote_table[p] \in -MaxSkew..(Len(user) + MaxSkew)

ReceiveVoteToLynch(author, mention) ==
    /\ CanReceive
    /\ LET r == vote_to_lynch(self, author, mention)
       IN /\ Becomes(r.s)
          /\ tasks' = IF Finished(r.task) THEN tasks ELSE Append(tasks, r.task)

ReceiveVoteNoLynch(author) ==
    /\ CanReceive
    /\ LET r == vote_no_lynch(self, author)
       IN /\ Becomes(r.s)
          /\ tasks' = IF Finished(r.task) THEN tasks ELSE Append(tasks, r.task)

Resume(i) ==
    LET r == resume(self, tasks[i])
    IN /\ Becomes(r.s)
       /\ tasks' = IF Finished(r.task) THEN Without(tasks, i)
                   ELSE [tasks EXCEPT ![i] = r.task]

InitAsync ==
    \E n \in 1..AsyncPlayers :
        /\ IsState(Day1(n).s)
        /\ tasks = <<>>

NextAsync ==
    \/ \E author \in Voters, mention \in Voters \cup {None} :
          ReceiveVoteToLynch(author, mention)
    \/ \E author \in Voters : ReceiveVoteNoLynch(author)
    \/ \E i \in 1..Len(tasks) : Resume(i)

SpecAsync == InitAsync /\ [][NextAsync]_vars

----------------------------------------------------------------------------
(* Rosters of up to MaxRoster records, formed by mentions and joins, that   *)
(* are given roles when the join window closes.                             *)

RosterJoin(discord_user) ==
    /\ is_accepting
    /\ Len(players) < MaxRoster
    /\ Becomes(add_player(self, discord_user))
    /\ UNCHANGED tasks

NextRoles ==
    \/ \E mentions \in MentionLists : StartNewGame(NoArg, mentions)
    \/ \E discord_user \in Users : RosterJoin(discord_user)
    \/ JoinTimerExpires

SpecRoles == Init /\ [][NextRoles]_vars

----------------------------------------------------------------------------
(* The whole life of one MafiaGame object: every method can be called at    *)
(* any time, add_player and end_game included.                              *)

\* add_player as the code has it: called whatever is_accepting says.
Join(discord_user) ==
    /\ Len(user) < MaxRecords
    /\ Becomes(add_player(self, discord_user))
    /\ UNCHANGED tasks

\* end_game; a start_new_game asleep in the join window stays asleep.
EndGame ==
    /\ Becomes(end_game(self))
    /\ UNCHANGED tasks

NextLife ==
    \/ \E arg \in StartArgs, mentions \in MentionLists : StartNewGame(arg, mentions)
    \/ \E discord_user \in Users : Join(discord_user)
    \/ JoinTimerExpires
    \/ EndGame
    \/ \E author \in Users, mention \in Users \cup {None} : VoteToLynch(author, mention)
    \/ \E author \in Users : VoteNoLynch(author)

SpecLife == Init /\ [][NextLife]_vars

\* The step that resumes the sleeping start_new_game: of the steps of NextLife
\* only those of JoinTimerExpires shorten tasks, and JoinTimerExpires can be taken
\* whenever a start_new_game sleeps (random.sample never fails: round(n/4) <= n).
TimerFires == tasks # <<>> /\ tasks' = Tail(tasks)

\* asyncio.sleep(self.timeout) returns after a finite time.
SpecLifeFair == SpecLife /\ WF_tasks(TimerFires)

----------------------------------------------------------------------------
(* What the claims speak of. *)

\* Every Player record ever made, the players now alive, and their number.
Joined == 1..Len(user)
Alive == Range(alive)
AliveCount == Len(alive)

RECURSIVE SumOver(_, _)
SumOver(f, S) ==
    IF S = {} THEN 0
    ELSE LET x == CHOOSE x \in S : TRUE IN f[x] + SumOver(f, S \ {x})

TallySum(s) == SumOver(s.vote_table, DOMAIN s.vote_table)

\* Roles are assigned: the join window of a started game has closed.
RolesAssigned == is_ongoing /\ ~is_accepting

\* The whole handler of a vote event, run from the current state.
Lynch(author, mention) == Complete(vote_to_lynch(self, author, mention))
NoLynch(author) == Complete(vote_no_lynch(self, author))

\* The handler of a vote event up to its tally broadcast.
AtBroadcast(r) ==
    IF r.task.pc \in {"L365", "L398"} THEN resume(r.s, r.task) ELSE r

\* The handler applied the vote: it announced it.
Applied(r) ==
    /\ r.out # <<>>
    /\ r.out[1] \in {"voted", "changed", "votes_no_lynch"}

\* The handler refused the vote with the message msg and changed nothing.
RejectedWith(r, msg) == r.out = <<msg>> /\ r.s = self /\ r.task.pc = "done"

\* The handler went through a phase transition, with or without an elimination.
Transition(r) ==
    /\ r.s.day_phase # day_phase
    /\ r.out[Len(r.out)] = "phase"

NoTransition(r) ==
    /\ r.s.day_phase = day_phase
    /\ r.s.day_num = day_num
    /\ \A i \in 1..Len(r.out) : r.out[i] # "phase"

NoElimination(r) ==
    /\ r.s.alive = alive
    /\ r.s.is_alive = is_alive

----------------------------------------------------------------------------
\* C1 (tally invariant): once roles are assigned, the entries of vote_table add
\* up to the number of alive players with a vote standing, and no_lynch is the
\* number of alive players voting no-lynch.
C1_TallyInvariant ==
    RolesAssigned =>
        /\ TallySum(self) = Cardinality({p \in Alive : votes_for[p] # None})
        /\ no_lynch = Cardinality({p \in Alive : is_no_lynch[p]})

\* Votes and no-lynch votes stand in the night after a lynch among five players.
C1_Witness ==
    /\ Len(user) = 5
    /\ AliveCount = 4
    /\ TallySum(self) >= 2
    /\ no_lynch >= 1
    /\ \E p \in Joined : ~is_alive[p] /\ votes_for[p] # None

\* C2 (majority lynch): with n players alive, a vote that is applied and brings
\* its target's count (as broadcast) to floor(n/2)+1 or more kills the target and
\* changes the phase; one that leaves the count below changes neither the living
\* nor the phase.
C2_MajorityLynch ==
    \A author \in Voters, mention \in Voters :
        LET r == Lynch(author, mention) IN
        Applied(r) =>
            LET target == user_to_player[mention] IN
            IF r.tally.votes[target] >= (AliveCount \div 2) + 1
            THEN /\ ~r.s.is_alive[target]
                 /\ target \notin Range(r.s.alive)
                 /\ Range(r.s.alive) = Alive \ {target}
                 /\ Transition(r)
            ELSE NoElimination(r) /\ NoTransition(r)

\* Five players, one of them lynched on Day 1 while another target held two votes
\* at most: the night after.
C2_Witness ==
    /\ Len(user) = 5
    /\ AliveCount = 4
    /\ day_phase = "Night"
    /\ day_num = 1
    /\ \E p \in Joined : ~is_alive[p]

\* C3 (no-lynch majority): with n players alive, a no-lynch vote that is applied
\* and brings the counter (as broadcast) to ceil(n/2) or more changes the phase
\* and eliminates nobody; below that it changes nothing but the vote.  (A counter
\* k is ceil(n/2) or more exactly when 2k >= n.)
C3_NoLynchMajority ==
    \A author \in Voters :
        LET r == NoLynch(author) IN
        Applied(r) =>
            IF 2 * r.tally.no_lynch >= AliveCount
            THEN Transition(r) /\ NoElimination(r)
            ELSE NoTransition(r) /\ NoElimination(r)

\* Five players alive in Night 1, nobody dead: the town voted no lynch on Day 1.
C3_Witness ==
    /\ Len(user) = 5
    /\ AliveCount = 5
    /\ day_phase = "Night"
    /\ day_num = 1

\* C4 (phase reset): every step that changes the phase leaves every player that
\* joined, dead or alive, with votes_for None and is_no_lynch false, no_lynch 0,
\* and a vote_table whose keys are the players alive, each at 0.
C4_PhaseReset ==
    [][day_phase' # day_phase =>
          /\ \A p \in 1..Len(user') : votes_for'[p] = None /\ ~is_no_lynch'[p]
          /\ no_lynch' = 0
          /\ DOMAIN vote_table' = Range(alive')
          /\ \A p \in DOMAIN vote_table' : vote_table'[p] = 0]_vars

\* C5 (no-lynch exclusivity): no player has a vote standing and is_no_lynch set;
\* an applied lynch vote leaves its voter's is_no_lynch false and an applied
\* no-lynch vote leaves its voter's votes_for None, at the tally broadcast and
\* when the handler ends.
C5_Exclusivity ==
    /\ \A p \in Joined : ~(votes_for[p] # None /\ is_no_lynch[p])
    /\ \A author \in Voters, mention \in Voters :
          LET b == AtBroadcast(vote_to_lynch(self, author, mention))
              r == Lynch(author, mention)
          IN Applied(r) =>
                /\ ~b.s.is_no_lynch[user_to_player[author]]
                /\ b.s.votes_for[user_to_player[author]] = user_to_player[mention]
                /\ ~r.s.is_no_lynch[user_to_player[author]]
    /\ \A author \in Voters :
          LET b == AtBroadcast(vote_no_lynch(self, author))
              r == NoLynch(author)
          IN Applied(r) =>
                /\ b.s.votes_for[user_to_player[author]] = None
                /\ b.s.is_no_lynch[user_to_player[author]]
                /\ r.s.votes_for[user_to_player[author]] = None

\* Both kinds of vote stand at once, and a voter of each kind can switch.
C5_Witness ==
    /\ AliveCount >= 4
    /\ \E p, q \in Alive : is_no_lynch[p] /\ votes_for[q] # None
    /\ day_phase = "Night"

\* The reasons the handlers give for refusing a vote.
LynchRefusals ==
    {"not_in_game", "voter_dead", "no_target", "target_not_in_game", "target_dead"}

\* C6 (rejected votes change nothing): a lynch vote whose voter is unknown or dead,
\* that names nobody, or whose target is unknown or dead, and a no-lynch vote whose
\* voter is unknown, dead or already voting no-lynch, leave the game state as it
\* was; so does every vote the handler did not apply.
C6_RejectedUnchanged ==
    /\ \A author \in Voters, mention \in Voters \cup {None} :
          LET r == Lynch(author, mention)
              invalid == \/ author \notin DOMAIN user_to_player
                         \/ ~is_alive[user_to_player[author]]
                         \/ mention = None
                         \/ mention \notin DOMAIN user_to_player
                         \/ ~is_alive[user_to_player[mention]]
          IN (invalid \/ ~Applied(r)) =>
                /\ r.s = self
                /\ r.task.pc = "done"
                /\ Len(r.out) = 1
                /\ r.out[1] \in LynchRefusals
    /\ \A author \in Voters :
          LET r == NoLynch(author)
              invalid == \/ author \notin DOMAIN user_to_player
                         \/ ~is_alive[user_to_player[author]]
                         \/ is_no_lynch[user_to_player[author]]
          IN (invalid \/ ~Applied(r)) =>
                /\ r.s = self
                /\ r.task.pc = "done"
                /\ r.out \in {<<>>, <<"not_in_game">>, <<"voter_dead">>}

\* A state with every reason to refuse: a dead player, a user outside the game,
\* a player voting no-lynch, and votes that a refused vote must leave standing.
C6_Witness ==
    /\ \E p \in Joined : ~is_alive[p]
    /\ \E p \in Alive : is_no_lynch[p]
    /\ \E p \in Alive : votes_for[p] # None
    /\ Voters \ DOMAIN user_to_player # {}

\* C7 (the dead take no part): a dead player is no key of vote_table and no alive
\* player votes for it; its lynch and no-lynch votes are refused as the votes of a
\* dead player, and a lynch vote that names it is refused.
C7_DeadPlayers ==
    /\ \A p \in Joined :
          ~is_alive[p] =>
             /\ p \notin DOMAIN vote_table
             /\ \A q \in Alive : votes_for[q] # p
    /\ \A author \in DOMAIN user_to_player :
          ~is_alive[user_to_player[author]] =>
             /\ RejectedWith(NoLynch(author), "voter_dead")
             /\ \A mention \in Voters \cup {None} :
                   RejectedWith(Lynch(author, mention), "voter_dead")
    /\ \A mention \in DOMAIN user_to_player :
          ~is_alive[user_to_player[mention]] =>
             \A author \in Voters :
                \E msg \in LynchRefusals : RejectedWith(Lynch(author, mention), msg)

\* Two players are dead (one lynched by day, one killed by night) and others live.
C7_Witness ==
    /\ Cardinality({p \in Joined : ~is_alive[p]}) = 2
    /\ AliveCount >= 2
    /\ day_num = 2

\* C8 (roster consistency): once roles are assigned, mafia and townies are
\* disjoint and make up players, alive is part of players, every Player of
\* user_to_player is in players, and a dead player is out of alive and in players.
C8_RosterConsistency ==
    RolesAssigned =>
        /\ mafia \cap townies = {}
        /\ mafia \cup townies = Range(players)
        /\ Alive \subseteq Range(players)
        /\ \A u \in DOMAIN user_to_player : user_to_player[u] \in Range(players)
        /\ \A p \in Joined : ~is_alive[p] => p \notin Alive /\ p \in Range(players)

\* The tally of the state s counts the votes of the living: each count is the
\* number of alive players voting for that player, no_lynch the number of alive
\* players voting no-lynch.
TallyCounts(s, votes, counter) ==
    /\ \A player \in DOMAIN votes :
          votes[player] = Cardinality({p \in Range(s.alive) : s.votes_for[p] = player})
    /\ counter = Cardinality({p \in Range(s.alive) : s.is_no_lynch[p]})

\* C9 (interleaved handlers): every tally a suspended handler broadcasts when it is
\* resumed counts the votes of the living as they then are, and a state with no
\* handler in flight has a tally that counts them and no player with both a vote
\* standing and is_no_lynch set.
C9_InterleavedTally ==
    /\ \A i \in 1..Len(tasks) :
          tasks[i].pc \in {"L365", "L398"} =>
             LET r == resume(self, tasks[i])
             IN r.task.pc = "L227" => TallyCounts(r.s, r.tally.votes, r.tally.no_lynch)
    /\ tasks = <<>> =>
          /\ TallyCounts(self, vote_table, no_lynch)
          /\ \A p \in Joined : ~(votes_for[p] # None /\ is_no_lynch[p])

\* C10 (single active vote): a voter whose vote stands for A and who votes for
\* another player B without bringing B to a majority takes one from A's count, adds
\* one to B's, and leaves every other count, their sum and no_lynch as they were;
\* the voter's votes_for is B.
C10_SingleActiveVote ==
    \A author \in Voters, mention \in Voters :
        LET r == Lynch(author, mention) IN
        Applied(r) =>
            LET voter == user_to_player[author]
                A == votes_for[voter]
                B == user_to_player[mention]
            IN (A # None /\ A # B /\ r.tally.votes[B] < (AliveCount \div 2) + 1) =>
                  /\ DOMAIN r.s.vote_table = DOMAIN vote_table
                  /\ r.s.vote_table[A] = vote_table[A] - 1
                  /\ r.s.vote_table[B] = vote_table[B] + 1
                  /\ \A p \in DOMAIN vote_table \ {A, B} :
                        r.s.vote_table[p] = vote_table[p]
                  /\ r.s.no_lynch = no_lynch
                  /\ TallySum(r.s) = TallySum(self)
                  /\ r.s.votes_for[voter] = B
                  /\ r.out[1] = "changed"

\* Five alive: votes stand for two different targets, so that a voter of one can
\* switch to the other without a majority.
C10_Witness ==
    /\ AliveCount = 5
    /\ \E p, q \in Alive :
          /\ votes_for[p] # None
          /\ votes_for[q] # None
          /\ votes_for[p] # votes_for[q]
          /\ vote_table[votes_for[q]] = 1

\* C11 (role split): once roles are assigned to a roster of n records, the number
\* k of Mafia is n/4 rounded to the nearest integer (|4k - n| <= 2), a half to the
\* even neighbour (k is even when |4k - n| = 2), the other n - k are Town; n = 2
\* gives no Mafia, n = 6 two, n = 8 two Mafia and six Town; every record of the
\* roster has exactly one role, the one of its list; mafia and townies are disjoint
\* and cover the roster; alive is the roster.
C11_RoleSplit ==
    RolesAssigned =>
        LET n == Len(players)
            k == Cardinality(mafia)
        IN /\ 4 * k - n \in -2..2
           /\ (4 * k - n \in {-2, 2}) => k % 2 = 0
           /\ Cardinality(townies) = n - k
           /\ n = 2 => k = 0
           /\ n = 6 => k = 2
           /\ n = 8 => k = 2 /\ Cardinality(townies) = 6
           /\ Cardinality(Range(players)) = n
           /\ \A p \in Range(players) :
                 /\ role[p] \in {"Mafia ", "Townie"}
                 /\ role[p] = "Mafia " <=> p \in mafia
                 /\ role[p] = "Townie" <=> p \in townies
           /\ mafia \cap townies = {}
           /\ mafia \cup townies = Range(players)
           /\ alive = players

\* A roster of eight has been given its roles.
C11_Witness ==
    /\ RolesAssigned
    /\ Len(players) = 8
    /\ Cardinality(mafia) = 2
    /\ Cardinality(townies) = 6

\* A step of the phase machine: the phase flips with day_num one more at daybreak
\* and the same at nightfall, or neither changes.
PhaseStep ==
    /\ day_phase \in {"Night", "Day"} /\ day_phase' \in {"Night", "Day"}
    /\ (day_phase = "Night" /\ day_phase' = "Day") => day_num' = day_num + 1
    /\ (day_phase = "Day" /\ day_phase' = "Night") => day_num' = day_num
    /\ day_phase' = day_phase => day_num' = day_num

\* A game never started is in the Night with day_num 0.
StartsAtNight0 == ~is_ongoing => day_phase = "Night" /\ day_num = 0

\* C12 as stated (phase alternation and day counter): the phase starts as Night
\* with day_num 0; every step either leaves phase and day_num alone or flips the
\* phase, with day_num one more on Night to Day and unchanged on Day to Night; so
\* day_num never decreases and counts the Night-to-Day transitions so far.
C12_PhaseAlternation_Stated ==
    /\ []StartsAtNight0
    /\ [][PhaseStep /\ day_num' >= day_num]_vars

\* C12 as amended: the same of every step but end_game, which puts the game back
\* to Night with day_num 0 (and no channel); day_num counts the Night-to-Day
\* transitions since the last such reset.
C12_PhaseAlternation ==
    /\ []StartsAtNight0
    /\ [][\/ PhaseStep /\ day_num' >= day_num
          \/ day_phase' = "Night" /\ day_num' = 0 /\ gen_channel' = "None"
                /\ players' = <<>> /\ vote_table' = EmptyDict]_vars

\* Day 2: two Night-to-Day transitions and one Day-to-Night transition have passed.
C12_Witness ==
    /\ day_phase = "Day"
    /\ day_num = 2

\* The lifecycle as the flags tell it: 0 not started, 1 accepting (the join
\* window), 2 in progress.
Lifecycle ==
    IF ~is_ongoing THEN 0 ELSE IF is_accepting THEN 1 ELSE 2

\* C13 (linear lifecycle): once a game is ongoing, every start is answered
\* "already ongoing" and leaves the state as it was, in the join window, in
\* progress and after end_game; and no step takes the lifecycle back to an
\* earlier state.
C13_LinearLifecycle ==
    /\ [](is_ongoing =>
            \A arg \in StartArgs, mentions \in MentionLists :
                LET r == start_new_game(self, arg, mentions)
                IN r.out = <<"already_ongoing">> /\ r.s = self /\ r.task.pc = "done")
    /\ [][Lifecycle' >= Lifecycle]_vars

\* C14 (the join window gates joining): add_player called while is_accepting is
\* false (before the start, after the window has closed, in progress) leaves
\* players, alive and vote_table as they were; called in the window it appends
\* one new record to players.
C14_JoinWindowGates ==
    \A discord_user \in Users :
        LET t == add_player(self, discord_user)
        IN IF is_accepting
           THEN t.players = Append(players, Len(user) + 1)
           ELSE /\ t.players = players
                /\ t.alive = alive
                /\ t.vote_table = vote_table

\* Day 1 of a game whose join window has closed, with a fresh vote table over the
\* roster.
Day1Table ==
    /\ ~is_accepting
    /\ day_phase = "Day"
    /\ day_num = 1
    /\ DOMAIN vote_table = Range(players)
    /\ \A p \in DOMAIN vote_table : vote_table[p] = 0
    /\ no_lynch = 0

\* C15 (the join window closes into Day 1): no record of the roster has a role
\* while is_accepting is true; the step that ends the sleep of start_new_game
\* leaves is_accepting false and the game in Day 1 with a vote_table whose keys
\* are the records that had joined, all at 0; and whenever a start_new_game sleeps
\* in its join window, whatever its timeout argument and the joins, that step can
\* be taken and eventually is.
C15_JoinWindowCloses ==
    /\ [](is_accepting => \A p \in Range(players) : role[p] = "None")
    /\ [](tasks # <<>> => Head(tasks).pc = "L315" /\ Samples(self) # {})
    /\ [][(tasks # <<>> /\ tasks' = <<>>) =>
             /\ Day1Table'
             /\ players' = players
             /\ \A p \in Range(players') : role'[p] # "None"]_vars
    /\ (tasks # <<>>) ~> (tasks = <<>> /\ Day1Table)

\* Day 1 of a game started with a timeout that is no integer and joined by nobody.
C15_Witness ==
    /\ tasks = <<>>
    /\ timeout = 0
    /\ players = <<>>
    /\ is_ongoing
    /\ Day1Table

\* The states s and t agree on all that a vote can change.
SameGame(s, t) ==
    /\ s.vote_table = t.vote_table
    /\ s.no_lynch = t.no_lynch
    /\ s.votes_for = t.votes_for
    /\ s.is_no_lynch = t.is_no_lynch
    /\ s.is_alive = t.is_alive
    /\ s.alive = t.alive
    /\ s.day_phase = t.day_phase
    /\ s.day_num = t.day_num

\* The same lynch vote handled twice in a row leaves the game as handling it once.
LynchTwiceAsOnce ==
    \A author \in Voters, mention \in Voters \cup {None} :
        LET once == Lynch(author, mention)
            twice == Complete(vote_to_lynch(once.s, author, mention))
        IN SameGame(twice.s, once.s)

\* C16 as stated (idempotence of repeated votes): in every state of a game in
\* progress, the same voteLynch handled twice in a row, and the same voteNoLynch
\* handled twice in a row, leave the game in the state that handling it once
\* leaves.
C16_Idempotent_Stated ==
    RolesAssigned =>
        /\ LynchTwiceAsOnce
        /\ \A author \in Voters :
              LET once == NoLynch(author)
                  twice == Complete(vote_no_lynch(once.s, author))
              IN SameGame(twice.s, once.s)

\* C16 as amended: the same of voteLynch; a voteNoLynch handled twice leaves the
\* game as handling it once unless the first one ends the phase: then the second
\* is applied as a no-lynch vote of the next phase.
C16_Idempotent ==
    RolesAssigned =>
        /\ LynchTwiceAsOnce
        /\ \A author \in Voters :
              LET once == NoLynch(author)
                  twice == Complete(vote_no_lynch(once.s, author))
              IN IF once.s.day_phase = day_phase
                 THEN SameGame(twice.s, once.s)
                 ELSE /\ Transition(once)
                      /\ Applied(twice)
                      /\ ~SameGame(twice.s, once.s)

\* Night 1 of five players after a no-lynch result, with a no-lynch vote and a
\* lynch vote standing: votes that can be repeated, some of them decisive.
C16_Witness ==
    /\ Len(user) = 5
    /\ AliveCount = 5
    /\ day_phase = "Night"
    /\ no_lynch = 2
    /\ \E q \in Alive : votes_for[q] # None

\* The outcome the order of checks of voteLynch gives: the first that fails.
FirstFailing(author, mention) ==
    IF author \notin DOMAIN user_to_player THEN "not_in_game"
    ELSE IF ~is_alive[user_to_player[author]] THEN "voter_dead"
    ELSE IF mention = None THEN "no_target"
    ELSE IF mention \notin DOMAIN user_to_player THEN "target_not_in_game"
    ELSE IF ~is_alive[user_to_player[mention]] THEN "target_dead"
    ELSE "none"

\* C17 (validation order of voteLynch): a lynch vote is refused, the state left as
\* it was, with the message of the first check that fails in the order voter
\* unknown, voter dead, no target, target unknown, target dead; it is applied
\* exactly when none fails.  A dead voter naming nobody is told he is dead; an
\* unknown voter naming a dead player is told he is not in the game.
C17_ValidationOrder ==
    RolesAssigned =>
        /\ \A author \in Voters, mention \in Voters \cup {None} :
              LET r == Lynch(author, mention)
                  failing == FirstFailing(author, mention)
              IN IF failing = "none"
                 THEN Applied(r)
                 ELSE RejectedWith(r, failing)
        /\ \A author \in DOMAIN user_to_player :
              ~is_alive[user_to_player[author]] =>
                  RejectedWith(Lynch(author, None), "voter_dead")
        /\ \A author \in Voters \ DOMAIN user_to_player, mention \in DOMAIN user_to_player :
              ~is_alive[user_to_player[mention]] =>
                  RejectedWith(Lynch(author, mention), "not_in_game")

\* One of three players is dead: every check has a vote that fails it first.
C17_Witness ==
    /\ Len(user) = 3
    /\ AliveCount = 2
    /\ \E p \in Joined : ~is_alive[p]
    /\ Voters \ DOMAIN user_to_player # {}

\* The game is in progress: started, the join window closed, not ended.
InProgress == is_ongoing /\ ~is_accepting

\* The handler refused the vote as one outside a game in progress: it left by its
\* assertion, sent none of the messages of the validation, and changed no vote.
RefusedNotInProgress(r) ==
    /\ r.task.pc = "raised"
    /\ r.out = <<>>
    /\ r.s.vote_table = vote_table
    /\ r.s.no_lynch = no_lynch
    /\ r.s.votes_for = votes_for
    /\ r.s.is_no_lynch = is_no_lynch

\* C18 (votes outside a game in progress): before a start, in the join window
\* and after end_game, every voteLynch and every voteNoLynch is refused as not in
\* progress, which is none of the refusals of the validation, and changes no vote.
C18_VotesOutsideRefused ==
    ~InProgress =>
        /\ \A author \in Voters, mention \in Voters \cup {None} :
              RefusedNotInProgress(Lynch(author, mention))
        /\ \A author \in Voters : RefusedNotInProgress(NoLynch(author))

\* The handlers suspended between the announcement of a result (lines 189, 191,
\* 195) and the phase change that follows it.
Deciding == {i \in 1..Len(tasks) : tasks[i].pc \in {"L189", "L195"}}

\* C19 (exactly-once elimination under interleaving): no suspended handler, when
\* resumed, fails on a target that is no key of vote_table (KeyError) or that is
\* no longer in alive (ValueError, the second kill of one player), and no two
\* handlers are at once about to change the phase.
C19_ExactlyOnce ==
    /\ \A i \in 1..Len(tasks) : resume(self, tasks[i]).task.pc # "raised"
    /\ Cardinality(Deciding) <= 1

\* The records a user of the game stands for.
CanVote == {user_to_player[u] : u \in DOMAIN user_to_player}

\* C20 (every living player can vote): once roles are assigned, every record in
\* alive and every key of vote_table is the Player of some user in user_to_player,
\* so the records that can vote no-lynch are enough to reach ceil(n/2) of the n
\* alive.
C20_LivingCanVote ==
    RolesAssigned =>
        /\ Alive \subseteq CanVote
        /\ DOMAIN vote_table \subseteq CanVote
        /\ 2 * Cardinality(Alive \cap CanVote) >= AliveCount

====
